---------------------------- MODULE Spec2Model ----------------------------
(***************************************************************************)
(* Invitation / activation workflow of the GKR data portal.                *)
(*                                                                         *)
(* The state is the tblregistered table (models/auth.py), the wall clock,  *)
(* and one browser session per element of Sessions.  Every unit of work    *)
(* runs in its own session_scope() transaction (db/session.py): a SELECT,  *)
(* then a flush() that emits one INSERT or UPDATE, then COMMIT.  The       *)
(* SELECT of one session and the write of another interleave freely.       *)
(*                                                                         *)
(* Storage semantics (PostgreSQL at its default READ COMMITTED level, the  *)
(* engine is created without an isolation_level, db/session.py:21):        *)
(*   - a SELECT sees the rows committed when it runs;                      *)
(*   - an UPDATE ... WHERE id = k waits while another transaction holds an *)
(*     uncommitted write of row k, then applies its SET list to the latest *)
(*     committed version of the row;                                       *)
(*   - a unique index makes an INSERT/UPDATE wait for an uncommitted       *)
(*     duplicate and fail when the duplicate is committed.                 *)
(* No handler runs a statement between its flush() and its COMMIT, and a   *)
(* conflicting write of another transaction waits for that COMMIT, so the  *)
(* pair is one step here: the write happens at its commit point.           *)
(* ORM semantics (SQLAlchemy unit of work): the UPDATE emitted by flush()  *)
(* SETs only the attributes whose assigned value differs from the value    *)
(* that was loaded; when none differs no UPDATE is emitted.                *)
(***************************************************************************)
EXTENDS Integers, Sequences, FiniteSets, TLC

VARIABLES
    users,        \* tblregistered: committed rows, id -> row
    nextId,       \* Identity() sequence of tblregistered.id
    nextTok,      \* next raw token secrets.token_urlsafe will return
    now,          \* datetime.now(timezone.utc), in hours
    pc,           \* per session: position of its handler
    tok,          \* per session: token_raw of the page / minted token
    stmt,         \* per session: the unit of work flush() will emit
    redemptions,  \* history: raw token -> committed activations with it
    superseded,   \* history: raw tokens replaced by a later committed invite
    call,         \* direct calls: the operation last called, with its arguments
    ret           \* direct calls: what that call returned or raised

vars == <<users, nextId, nextTok, now, pc, tok, stmt,
          redemptions, superseded, call, ret>>

---------------------------------------------------------------------------
(* Bounds *)

MaxInvites == 2
MaxTime == 2
MaxTtl == 2
MaxRows == 3

Sessions == {"s1", "s2"}
Tokens == 1 .. MaxInvites

---------------------------------------------------------------------------
(* Values *)

\* A nullable column holds NULL or Some(v).
NULL == <<>>
Some(v) == <<v>>

\* The columns of tblregistered the workflow reads.  invited_at (written
\* with every invite) and last_login_at are read by no handler and are
\* left out.
Columns == {"email", "username", "password_hash", "role", "is_active",
            "invite_token_hash", "invite_expires_at"}

USER_ROLE_VALUES == {"admin", "user"}

\* Strings are sequences of characters.
IsSpace(c) == c \in {" "}

RECURSIVE lstrip(_)
lstrip(s) == IF s # <<>> /\ IsSpace(Head(s)) THEN lstrip(Tail(s)) ELSE s

RECURSIVE rstrip(_)
rstrip(s) ==
    IF s # <<>> /\ IsSpace(s[Len(s)])
    THEN rstrip(SubSeq(s, 1, Len(s) - 1))
    ELSE s

strip(s) == rstrip(lstrip(s))

\* What the forms can send.
EmailInputs == {<<>>, <<" ">>, <<"a">>, <<" ", "a", " ">>}
RoleInputs == {"user", "admin"}
UsernameInputs == {<<>>, <<" ">>, <<"r">>, <<"u">>, <<"u", " ">>}
PasswordInputs == {<<>>, <<"p">>}

---------------------------------------------------------------------------
(* core/invitations.py *)

\* sha256(...).hexdigest(): deterministic, injective, never the input.
hash_token(raw) == <<"sha256", raw>>

hash_password(pw) == <<"sha256", pw>>

\* core/settings.py: max(1, int(INVITE_TTL_HOURS)); the model runs with
\* INVITE_TTL_HOURS=1, the smallest lifetime the function returns.
get_invite_ttl_hours == 1

\* Faulty variant: the lifetime is not added.
compute_expiry_without_ttl(hours, clock) == clock

compute_expiry(hours, clock) == clock + hours

\* Faulty variant: the boundary instant does not count as expired.
is_expired_after_only(expires_at, clock) ==
    IF expires_at = NULL THEN TRUE ELSE clock > expires_at[1]

is_expired(expires_at, clock) ==
    IF expires_at = NULL THEN TRUE ELSE clock >= expires_at[1]

\* Faulty variant: any stored digest verifies.
verify_token_any_digest(raw, stored_hash) ==
    ~(stored_hash = NULL \/ stored_hash = Some(<<>>))

\* `not stored_hash` holds for None and for the empty string.
verify_token(raw, stored_hash) ==
    IF stored_hash = NULL \/ stored_hash = Some(<<>>)
    THEN FALSE
    ELSE hash_token(raw) = stored_hash[1]

---------------------------------------------------------------------------
(* models/auth.py: the table and its constraints *)

\* User(): a new ORM object, every attribute unset (role and is_active are
\* assigned before the first INSERT in the only place that creates one).
User ==
    [email |-> NULL, username |-> NULL, password_hash |-> NULL,
     role |-> "user", is_active |-> FALSE,
     invite_token_hash |-> NULL, invite_expires_at |-> NULL]

\* Faulty variants: unique=True missing on one column.
UniqueCols_username_not_unique == {"email"}
UniqueCols_email_not_unique == {"username"}

\* unique=True columns.
UniqueCols == {"username", "email"}

\* Faulty variant: the table has no CheckConstraint on role.
role_allowed_unchecked(row) == TRUE

\* CheckConstraint role_allowed.
role_allowed(row) == row.role \in USER_ROLE_VALUES

\* The administrator account the deployment is seeded with: without one
\* nobody passes require_admin and no invite can ever be created.
SeedAdmin ==
    [User EXCEPT !.email = Some(<<"r">>), !.username = Some(<<"r">>),
                 !.password_hash = Some(hash_password(<<"p">>)),
                 !.role = "admin", !.is_active = TRUE]

---------------------------------------------------------------------------
(* SQLAlchemy unit of work + PostgreSQL READ COMMITTED *)

\* A session whose last handler has returned: a page is shown and any of
\* its buttons, or another URL, may come next.
AtRest == {"idle", "form"}

NoStmt == [kind |-> "none", id |-> 0, vals |-> User, cols |-> {}]

\* No direct call has been made.
NoCall == [op |-> "none"]
NoRet == [error |-> "none", notify |-> "none", log |-> <<>>]

\* The attributes of `assigned` the flush will write for an object loaded
\* as `loaded`: those whose value is not equal to the loaded one.
Dirty(loaded, assigned, names) == {c \in names : assigned[c] # loaded[c]}

\* The UPDATE flush() will emit for row `id`.  vals keeps what the handler
\* assigned to the attributes `names`; the SET list is `cols` only.
UpdateStmt(id, assigned, names, cols) ==
    [kind |-> "update", id |-> id,
     vals |-> [c \in Columns |-> IF c \in names THEN assigned[c] ELSE User[c]],
     cols |-> cols]

\* The INSERT flush() will emit for a new object; its id comes from the
\* Identity sequence when the statement runs.
InsertStmt(row) == [kind |-> "insert", id |-> 0, vals |-> row, cols |-> Columns]

\* Statement st duplicates a committed key of another row.
UniqueViolation(st) ==
    \E id \in DOMAIN users, c \in UniqueCols \cap st.cols :
        /\ st.vals[c] # NULL
        /\ users[id][c] = st.vals[c]
        /\ ~(st.kind = "update" /\ id = st.id)

\* The statement flush() emits raises IntegrityError.
IntegrityError(st) ==
    /\ st.cols # {}
    /\ \/ UniqueViolation(st)
       \/ ("role" \in st.cols /\ ~role_allowed(st.vals))

\* The table after COMMIT of st: an UPDATE changes the columns of its SET
\* list in the row as last committed, an INSERT adds the row.
Committed(st) ==
    IF st.cols = {} THEN users
    ELSE IF st.kind = "insert" THEN users @@ (st.id :> st.vals)
    ELSE [users EXCEPT ![st.id] =
            [c \in Columns |-> IF c \in st.cols THEN st.vals[c] ELSE @[c]]]

\* select(User).where(col == v): the ids of the matching rows.
SelectWhere(col, v) == {id \in DOMAIN users : users[id][col] = v}

---------------------------------------------------------------------------
(* db/session.py: session_scope *)

\* The with-block of session s from its flush() on.  If the statement
\* raises, the except branch rolls back and re-raises: nothing is written
\* and the handler ends at `back`.  Otherwise the block ends, db.commit()
\* makes the write visible and the handler goes on to `next`.
session_scope(s, next, back) ==
    LET st == [stmt[s] EXCEPT !.id = IF @ = 0 THEN nextId ELSE @] IN
    /\ IF IntegrityError(st)
       THEN /\ users' = users
            /\ pc' = [pc EXCEPT ![s] = back]
       ELSE /\ users' = Committed(st)
            /\ pc' = [pc EXCEPT ![s] = next]
    /\ stmt' = [stmt EXCEPT ![s] = NoStmt]
    /\ nextId' = IF st.kind = "insert" THEN nextId + 1 ELSE nextId

---------------------------------------------------------------------------
(* ui/repository/admin_repo.py, ui/pages/admin.py: invitations *)

\* Faulty variant: the token minted first is handed out again.
new_invite_token_reused == nextTok - (nextTok - 1)

\* new_invite_token(): a raw secret nobody has seen before.
new_invite_token == nextTok

\* Faulty variant: a pending token is not replaced by the new one.
invite_assigned_keeps_pending(loaded, role, raw, clock) ==
    [loaded EXCEPT !.role = role,
                   !.is_active = FALSE,
                   !.invite_token_hash =
                        IF @ = NULL THEN Some(hash_token(raw)) ELSE @,
                   !.invite_expires_at =
                        Some(compute_expiry(get_invite_ttl_hours, clock))]

\* Lines 46-50: what create_invite_for_email assigns.
invite_assigned(loaded, role, raw, clock) ==
    [loaded EXCEPT !.role = role,
                   !.is_active = FALSE,
                   !.invite_token_hash = Some(hash_token(raw)),
                   !.invite_expires_at =
                        Some(compute_expiry(get_invite_ttl_hours, clock))]

\* Faulty variant: a blank email is not rejected.
invite_refusal_accepts_blank(email) ==
    IF Cardinality(SelectWhere("email", Some(strip(email)))) > 1
    THEN "MultipleResultsFound"
    ELSE "none"

\* What create_invite_for_email raises before it writes, if anything.
invite_refusal(email) ==
    IF strip(email) = <<>> THEN "email is required"
    ELSE IF Cardinality(SelectWhere("email", Some(strip(email)))) > 1
         THEN "MultipleResultsFound"
    ELSE "none"

\* The unit of work create_invite_for_email leaves for flush().  The expiry
\* is a microsecond timestamp taken now, never equal to a stored one, so it
\* is always part of the UPDATE.
create_invite_for_email(email, role, raw, clock) ==
    LET email_norm == strip(email)
        existing == SelectWhere("email", Some(email_norm))
        names == {"role", "is_active", "invite_token_hash", "invite_expires_at"}
    IN  IF existing = {}
        THEN InsertStmt(invite_assigned([User EXCEPT !.email = Some(email_norm)],
                                        role, raw, clock))
        ELSE LET id == CHOOSE i \in existing : TRUE
                 assigned == invite_assigned(users[id], role, raw, clock)
             IN  UpdateStmt(id, assigned, names,
                    Dirty(users[id], assigned, names)
                    \cup {"invite_expires_at"})

\* do_create_invite up to the flush: validation, token, SELECT by email.
\* A blank email ends the handler before a token is minted.
do_create_invite(s, email, role) ==
    /\ pc[s] \in AtRest
    /\ strip(email) # <<>>
    /\ invite_refusal(strip(email)) = "none"
    /\ nextTok <= MaxInvites
    /\ nextTok' = nextTok + 1
    /\ pc' = [pc EXCEPT ![s] = "inv_flush"]
    /\ tok' = [tok EXCEPT ![s] = new_invite_token]
    /\ stmt' = [stmt EXCEPT ![s] =
                    create_invite_for_email(strip(email), role,
                                            new_invite_token, now)]
    /\ UNCHANGED <<users, nextId, now, redemptions, superseded, call, ret>>

\* The raw tokens whose hash row `id` stores.
PendingTokens(id) ==
    IF id \in DOMAIN users
    THEN {t \in Tokens : users[id].invite_token_hash = Some(hash_token(t))}
    ELSE {}

\* db.add(user); db.flush(); db.refresh(user); commit.  On success the
\* link with the raw token is shown, on IntegrityError the handler dies.
create_invite_commit(s) ==
    /\ pc[s] = "inv_flush"
    /\ session_scope(s, "idle", "idle")
    /\ superseded' = IF users' # users
                     THEN superseded \cup PendingTokens(stmt[s].id)
                     ELSE superseded
    /\ tok' = [tok EXCEPT ![s] = 0]
    /\ UNCHANGED <<nextTok, now, redemptions, call, ret>>

---------------------------------------------------------------------------
(* ui/pages/accept_invite.py: redemption *)

\* The token query parameter: missing, a string that was never a token
\* (0), or a raw token some invite link carries.
TokenInputs == {NULL} \cup {Some(t) : t \in 0 .. (nextTok - 1)}

\* What page_accept_invite reports instead of showing the form, if anything.
page_refusal(token, clock) ==
    LET token_raw == IF token = NULL THEN 0 ELSE token[1]
        found == SelectWhere("invite_token_hash", Some(hash_token(token_raw)))
        user == users[CHOOSE i \in found : TRUE]
    IN  IF token = NULL THEN "Missing token"
        ELSE IF found = {} THEN "Invalid token"
        ELSE IF Cardinality(found) > 1 THEN "MultipleResultsFound"
        ELSE IF is_expired(user.invite_expires_at, clock) THEN "Invite expired"
        ELSE IF ~verify_token(token_raw, user.invite_token_hash)
             THEN "Invalid token"
        ELSE "none"

\* page_accept_invite: validates the token, then shows the form.
page_accept_invite(s, token) ==
    /\ pc[s] \in AtRest
    /\ IF page_refusal(token, now) = "none"
       THEN /\ pc' = [pc EXCEPT ![s] = "form"]
            /\ tok' = [tok EXCEPT ![s] = token[1]]
       ELSE /\ pc' = [pc EXCEPT ![s] = "idle"]
            /\ tok' = [tok EXCEPT ![s] = 0]
    /\ UNCHANGED <<users, nextId, nextTok, now, stmt, redemptions, superseded,
                   call, ret>>

\* Faulty variant: the token is not burnt.
accept_assigned_token_kept(loaded, username, pw) ==
    [loaded EXCEPT !.username = Some(username),
                   !.password_hash = Some(hash_password(pw)),
                   !.is_active = TRUE]

\* Faulty variant: the token is burnt but its expiry stays.
accept_assigned_expiry_kept(loaded, username, pw) ==
    [loaded EXCEPT !.username = Some(username),
                   !.password_hash = Some(hash_password(pw)),
                   !.is_active = TRUE,
                   !.invite_token_hash = NULL]

\* Lines 78-82: what do_accept assigns to the row it found.
accept_assigned(loaded, username, pw) ==
    [loaded EXCEPT !.username = Some(username),
                   !.password_hash = Some(hash_password(pw)),
                   !.is_active = TRUE,
                   !.invite_token_hash = NULL,
                   !.invite_expires_at = NULL]

\* What do_accept reports instead of activating, if anything.
accept_refusal(token_raw, username, pw1, pw2, clock) ==
    LET found == SelectWhere("invite_token_hash", Some(hash_token(token_raw)))
    IN  IF username = <<>> THEN "Username is required"
        ELSE IF pw1 = <<>> \/ pw1 # pw2 THEN "Passwords do not match"
        ELSE IF found = {} THEN "Invalid token"
        ELSE IF Cardinality(found) > 1 THEN "MultipleResultsFound"
        ELSE IF is_expired(users[CHOOSE i \in found : TRUE].invite_expires_at,
                           clock)
             THEN "Invite expired"
        ELSE "none"

\* do_accept up to the flush: validation, SELECT by token hash, expiry.
\* A refusal ends the handler with the form still shown and nothing staged.
do_accept(s, username_in, pw1, pw2) ==
    /\ pc[s] = "form"
    /\ accept_refusal(tok[s], strip(username_in), pw1, pw2, now) = "none"
    /\ LET username == strip(username_in)
           found == SelectWhere("invite_token_hash", Some(hash_token(tok[s])))
           id == CHOOSE i \in found : TRUE
           assigned == accept_assigned(users[id], username, pw1)
           names == {"username", "password_hash", "is_active",
                     "invite_token_hash", "invite_expires_at"}
       IN  stmt' = [stmt EXCEPT ![s] =
                        UpdateStmt(id, assigned, names,
                                   Dirty(users[id], assigned, names))]
    /\ pc' = [pc EXCEPT ![s] = "acc_flush"]
    /\ UNCHANGED <<users, nextId, nextTok, now, tok, redemptions, superseded,
                   call, ret>>

\* db.add(user2); db.flush(); commit.  On success "Account activated" is
\* shown and the browser leaves the page; on IntegrityError the handler
\* dies and the form stays.
accept_commit(s) ==
    /\ pc[s] = "acc_flush"
    /\ session_scope(s, "idle", "form")
    /\ redemptions' = IF pc'[s] = "idle"
                      THEN [redemptions EXCEPT ![tok[s]] = @ + 1]
                      ELSE redemptions
    /\ tok' = [tok EXCEPT ![s] = IF pc'[s] = "idle" THEN 0 ELSE @]
    /\ UNCHANGED <<nextTok, now, superseded, call, ret>>

---------------------------------------------------------------------------
(* ui/pages/admin.py, admin_repo.py: activate / disable *)

\* What set_user_active raises before it writes, if anything.
toggle_refusal(user_id) ==
    IF user_id \notin DOMAIN users THEN "User not found" ELSE "none"

\* Faulty variant: switching a record also drops its pending invite.
set_user_active_drops_invite(user_id, is_active) ==
    LET assigned == [users[user_id] EXCEPT !.is_active = is_active,
                                           !.invite_token_hash = NULL,
                                           !.invite_expires_at = NULL]
        names == {"is_active", "invite_token_hash", "invite_expires_at"}
    IN  UpdateStmt(user_id, assigned, names,
                   Dirty(users[user_id], assigned, names))

\* set_user_active: the unit of work it leaves for flush().
set_user_active(user_id, is_active) ==
    LET assigned == [users[user_id] EXCEPT !.is_active = is_active]
    IN  UpdateStmt(user_id, assigned, {"is_active"},
                   Dirty(users[user_id], assigned, {"is_active"}))

\* toggle_user up to the flush.
toggle_user(s, user_id, active) ==
    /\ pc[s] \in AtRest
    /\ toggle_refusal(user_id) = "none"
    /\ pc' = [pc EXCEPT ![s] = "tog_flush"]
    /\ stmt' = [stmt EXCEPT ![s] = set_user_active(user_id, active)]
    /\ tok' = [tok EXCEPT ![s] = 0]
    /\ UNCHANGED <<users, nextId, nextTok, now, redemptions, superseded,
                   call, ret>>

\* db.add(user); db.flush(); commit; refresh_users().
toggle_commit(s) ==
    /\ pc[s] = "tog_flush"
    /\ session_scope(s, "idle", "idle")
    /\ UNCHANGED <<nextTok, now, tok, redemptions, superseded, call, ret>>

---------------------------------------------------------------------------
(* The clock *)

Tick ==
    /\ now < MaxTime
    /\ now' = now + 1
    /\ UNCHANGED <<users, nextId, nextTok, pc, tok, stmt,
                   redemptions, superseded, call, ret>>

---------------------------------------------------------------------------

Init ==
    /\ users = (1 :> SeedAdmin)
    /\ nextId = 2
    /\ nextTok = 1
    /\ now = 0
    /\ pc = [s \in Sessions |-> "idle"]
    /\ tok = [s \in Sessions |-> 0]
    /\ stmt = [s \in Sessions |-> NoStmt]
    /\ redemptions = [t \in Tokens |-> 0]
    /\ superseded = {}
    /\ call = NoCall
    /\ ret = NoRet

Next ==
    \/ \E s \in Sessions, e \in EmailInputs, r \in RoleInputs :
            do_create_invite(s, e, r)
    \/ \E s \in Sessions : create_invite_commit(s)
    \/ \E s \in Sessions, t \in TokenInputs : page_accept_invite(s, t)
    \/ \E s \in Sessions, u \in UsernameInputs, p1, p2 \in PasswordInputs :
            do_accept(s, u, p1, p2)
    \/ \E s \in Sessions : accept_commit(s)
    \/ \E s \in Sessions, id \in 1 .. nextId, a \in BOOLEAN :
            toggle_user(s, id, a)
    \/ \E s \in Sessions : toggle_commit(s)
    \/ Tick

Spec == Init /\ [][Next]_vars

---------------------------------------------------------------------------
(* Direct calls: one caller, one transaction at a time, any argument *)

\* create_invite_for_email takes any string as role.
RoleArgs == {"user", "admin", "guest", ""}

\* What the environment can do to a transaction: nothing, make a statement
\* of the body after its flush raise (the connection is lost), or make
\* db.commit() raise.
Faults == {"none", "body", "commit"}

\* Faulty variant: no except branch; a body that raises after its flush
\* leaves its write to the commit of the finally branch.
scope_result_without_rollback(st0, raised, fault) ==
    LET st == [st0 EXCEPT !.id = IF @ = 0 THEN nextId ELSE @]
        flushed == raised = "none" /\ ~IntegrityError(st)
        seq == IF raised = "none" /\ st.kind = "insert"
               THEN nextId + 1 ELSE nextId
    IN  [table |-> IF flushed THEN Committed(st) ELSE users,
         nextId |-> seq,
         error |-> IF raised # "none" THEN raised
                   ELSE IF ~flushed THEN "IntegrityError"
                   ELSE IF fault # "none" THEN "OperationalError"
                   ELSE "none",
         log |-> <<"commit", "close">>]

\* The with session_scope() block as a whole, for a body that raised
\* `raised` before any write ("none": it did not) and that otherwise
\* flushes st: the table afterwards, the exception that leaves the block,
\* and the calls made on the session in order.
scope_result(st0, raised, fault) ==
    LET st == [st0 EXCEPT !.id = IF @ = 0 THEN nextId ELSE @]
        body_error ==
            IF raised # "none" THEN raised
            ELSE IF IntegrityError(st) THEN "IntegrityError"
            ELSE IF fault = "body" THEN "OperationalError"
            ELSE "none"
        seq == IF raised = "none" /\ st.kind = "insert"
               THEN nextId + 1 ELSE nextId
    IN  IF body_error # "none"
        THEN [table |-> users, nextId |-> seq, error |-> body_error,
              log |-> <<"rollback", "close">>]
        ELSE IF fault = "commit"
        THEN [table |-> users, nextId |-> seq, error |-> "OperationalError",
              log |-> <<"commit", "rollback", "close">>]
        ELSE [table |-> Committed(st), nextId |-> seq, error |-> "none",
              log |-> <<"commit", "close">>]

\* with session_scope() as db: create_invite_for_email(db, ...), as in
\* do_create_invite lines 47-51 but with the arguments unchecked.
call_create_invite_for_email(email, role, fault) ==
    /\ nextTok <= MaxInvites
    /\ LET raised == invite_refusal(email)
           st == IF raised = "none"
                 THEN create_invite_for_email(email, role, new_invite_token, now)
                 ELSE NoStmt
           r == scope_result(st, raised, fault)
       IN  /\ users' = r.table
           /\ nextId' = r.nextId
           /\ ret' = [error |-> r.error, notify |-> "none", log |-> r.log]
    /\ nextTok' = nextTok + 1
    /\ call' = [op |-> "create_invite_for_email", email |-> email,
                role |-> role, fault |-> fault]
    /\ UNCHANGED <<now, pc, tok, stmt, redemptions, superseded>>

\* The unit of work do_accept leaves for flush() (lines 70-83).
accept_unit_of_work(token_raw, username, pw) ==
    LET found == SelectWhere("invite_token_hash", Some(hash_token(token_raw)))
        id == CHOOSE i \in found : TRUE
        assigned == accept_assigned(users[id], username, pw)
        names == {"username", "password_hash", "is_active",
                  "invite_token_hash", "invite_expires_at"}
    IN  UpdateStmt(id, assigned, names, Dirty(users[id], assigned, names))

\* do_accept as a whole, on a form shown for token_raw.  A validation
\* failure returns before a session is opened; an invalid or expired token
\* returns from inside the with block, which then commits nothing.
call_do_accept(token_raw, username_in, pw1, pw2, fault) ==
    /\ LET username == strip(username_in)
           refusal == accept_refusal(token_raw, username, pw1, pw2, now)
           validation == username = <<>> \/ pw1 = <<>> \/ pw1 # pw2
           st == IF refusal = "none"
                 THEN accept_unit_of_work(token_raw, username, pw1)
                 ELSE NoStmt
           r == scope_result(st, "none", fault)
       IN  IF validation
           THEN /\ ret' = [error |-> "none", notify |-> refusal, log |-> <<>>]
                /\ UNCHANGED <<users, nextId>>
           ELSE /\ users' = r.table
                /\ nextId' = r.nextId
                /\ ret' = [error |-> r.error,
                           notify |-> IF r.error # "none" THEN "none"
                                      ELSE IF refusal # "none" THEN refusal
                                      ELSE "Account activated",
                           log |-> r.log]
    /\ call' = [op |-> "do_accept", token |-> token_raw,
                username |-> username_in, pw1 |-> pw1, pw2 |-> pw2,
                fault |-> fault]
    /\ UNCHANGED <<nextTok, now, pc, tok, stmt, redemptions, superseded>>

\* with session_scope() as db: set_user_active(db, user_id, active).
call_set_user_active(user_id, is_active, fault) ==
    /\ LET raised == toggle_refusal(user_id)
           st == IF raised = "none" THEN set_user_active(user_id, is_active)
                 ELSE NoStmt
           r == scope_result(st, raised, fault)
       IN  /\ users' = r.table
           /\ nextId' = r.nextId
           /\ ret' = [error |-> r.error, notify |-> "none", log |-> r.log]
    /\ call' = [op |-> "set_user_active", user_id |-> user_id,
                is_active |-> is_active, fault |-> fault]
    /\ UNCHANGED <<nextTok, now, pc, tok, stmt, redemptions, superseded>>

\* Every argument is tried on an undisturbed transaction; a disturbed
\* transaction is tried with arguments that reach the flush.
CallNext ==
    \/ \E e \in EmailInputs, r \in RoleArgs :
            call_create_invite_for_email(e, r, "none")
    \/ \E t \in 1 .. (nextTok - 1), u \in UsernameInputs,
          p1, p2 \in PasswordInputs :
            call_do_accept(t, u, p1, p2, "none")
    \/ \E id \in 1 .. nextId, a \in BOOLEAN :
            call_set_user_active(id, a, "none")
    \/ \E f \in Faults \ {"none"} :
            call_create_invite_for_email(<<"a">>, "user", f)
    \/ \E f \in Faults \ {"none"}, t \in 1 .. (nextTok - 1) :
            call_do_accept(t, <<"u">>, <<"p">>, <<"p">>, f)
    \/ \E f \in Faults \ {"none"}, id \in 1 .. nextId, a \in BOOLEAN :
            call_set_user_active(id, a, f)

CallSpec == Init /\ [][CallNext]_vars

---------------------------------------------------------------------------
(* core/invitations.py called directly *)

\* new_invite_token(): InviteToken(raw, hashed).
call_new_invite_token ==
    /\ nextTok <= MaxInvites
    /\ call' = [op |-> "new_invite_token"]
    /\ ret' = [raw |-> new_invite_token, hashed |-> hash_token(new_invite_token)]
    /\ nextTok' = nextTok + 1
    /\ UNCHANGED <<users, nextId, now, pc, tok, stmt, redemptions, superseded>>

\* The stored digests verify_token can be given: none, the empty string,
\* or the digest of some raw string.
StoredInputs ==
    {NULL, Some(<<>>)} \cup {Some(hash_token(t)) : t \in 0 .. MaxInvites}

call_verify_token(raw, stored_hash) ==
    /\ call' = [op |-> "verify_token", raw |-> raw, stored_hash |-> stored_hash]
    /\ ret' = [value |-> verify_token(raw, stored_hash)]
    /\ UNCHANGED <<users, nextId, nextTok, now, pc, tok, stmt,
                   redemptions, superseded>>

\* compute_expiry(hours), called at the current instant.
call_compute_expiry(hours) ==
    /\ call' = [op |-> "compute_expiry", hours |-> hours, at |-> now]
    /\ ret' = [value |-> compute_expiry(hours, now)]
    /\ UNCHANGED <<users, nextId, nextTok, now, pc, tok, stmt,
                   redemptions, superseded>>

\* is_expired(None), called at the current instant.
call_is_expired_of_none ==
    /\ call' = [op |-> "is_expired", expires_at |-> NULL, at |-> now]
    /\ ret' = [value |-> is_expired(NULL, now)]
    /\ UNCHANGED <<users, nextId, nextTok, now, pc, tok, stmt,
                   redemptions, superseded>>

\* is_expired(e), called at the current instant, for the e that
\* compute_expiry(hours) returned at the instant computed_at.
call_is_expired(hours, computed_at) ==
    /\ computed_at <= now
    /\ call' = [op |-> "is_expired",
                expires_at |-> Some(compute_expiry(hours, computed_at)),
                hours |-> hours, computed_at |-> computed_at, at |-> now]
    /\ ret' = [value |-> is_expired(Some(compute_expiry(hours, computed_at)),
                                    now)]
    /\ UNCHANGED <<users, nextId, nextTok, now, pc, tok, stmt,
                   redemptions, superseded>>

CoreNext ==
    \/ call_new_invite_token
    \/ \E raw \in 0 .. (nextTok - 1), h \in StoredInputs :
            call_verify_token(raw, h)
    \/ \E h \in 0 .. MaxTtl : call_compute_expiry(h)
    \/ call_is_expired_of_none
    \/ \E h \in 0 .. MaxTtl, t \in 0 .. MaxTime : call_is_expired(h, t)
    \/ Tick

CoreSpec == Init /\ [][CoreNext]_vars

---------------------------------------------------------------------------
(* ui/pages/analytics_common.py: histogram *)

\* Python values a result row can hold under a key.
PyNone == <<"None">>
PyStr(s) == <<"str", s>>
PyInt(i) == <<"int", i>>

\* str(i) for an int i >= 0.
RECURSIVE str_int(_)
str_int(i) ==
    LET digit == <<"0", "1", "2", "3", "4", "5", "6", "7", "8", "9">>[(i % 10) + 1]
    IN  IF i < 10 THEN <<digit>> ELSE str_int(i \div 10) \o <<digit>>

\* The string "(null)".
NullLabel == <<"(", "n", "u", "l", "l", ")">>

\* Faulty variant: strings are counted as they are.
norm_bucket_untrimmed(v) ==
    IF v = PyNone THEN NullLabel
    ELSE IF v[1] = "str" THEN v[2]
    ELSE str_int(v[2])

norm_bucket(v) ==
    IF v = PyNone THEN NullLabel
    ELSE IF v[1] = "str"
         THEN LET s == strip(v[2]) IN IF s # <<>> THEN s ELSE NullLabel
    ELSE str_int(v[2])

\* A row is a dict, here the set of its (key, value) items; r.get(key).
dict_get(r, key) ==
    IF \E item \in r : item[1] = key
    THEN (CHOOSE item \in r : item[1] = key)[2]
    ELSE PyNone

\* Counter(labels): (label, count) items in order of first occurrence.
RECURSIVE Counter(_)
Counter(labels) ==
    IF labels = <<>> THEN <<>>
    ELSE LET init == Counter(SubSeq(labels, 1, Len(labels) - 1))
             last == labels[Len(labels)]
         IN  IF \E i \in 1 .. Len(init) : init[i][1] = last
             THEN [i \in 1 .. Len(init) |->
                      IF init[i][1] = last
                      THEN <<last, init[i][2] + 1>> ELSE init[i]]
             ELSE Append(init, <<last, 1>>)

\* sorted(items, key=count, reverse=True): stable, so items with equal
\* counts stay in the order they have in `items`.
RECURSIVE sorted_by_count(_)
sorted_by_count(items) ==
    IF items = <<>> THEN <<>>
    ELSE LET init == sorted_by_count(SubSeq(items, 1, Len(items) - 1))
             last == items[Len(items)]
             k == Cardinality({i \in 1 .. Len(init) : init[i][2] >= last[2]})
         IN  SubSeq(init, 1, k) \o <<last>> \o SubSeq(init, k + 1, Len(init))

\* Counter.most_common(n) = heapq.nlargest(n, items, key=count): the first
\* n items of the stable descending sort; nothing for n <= 0.
most_common(items, n) ==
    LET all == sorted_by_count(items)
    IN  IF n <= 0 THEN <<>>
        ELSE SubSeq(all, 1, IF n < Len(all) THEN n ELSE Len(all))

build_histogram(rows, x_key, top_n) ==
    IF rows = <<>> \/ x_key = ""
    THEN [xs |-> <<>>, ys |-> <<>>]
    ELSE LET c == Counter([i \in 1 .. Len(rows) |->
                                norm_bucket(dict_get(rows[i], x_key))])
             items == most_common(c, top_n)
         IN  [xs |-> [i \in 1 .. Len(items) |-> items[i][1]],
              ys |-> [i \in 1 .. Len(items) |-> items[i][2]]]

\* The rows, keys and top_n the histogram is called with.
RowInputs ==
    {{}} \cup {{<<"x", v>>} : v \in {PyNone, PyStr(<<>>), PyStr(<<" ">>),
                                     PyStr(<<"a">>), PyStr(<<" ", "a">>),
                                     PyStr(<<"b">>), PyInt(10)}}
KeyInputs == {"", "x"}
TopNInputs == {0, 1, 2, 30}

\* The call is drawn first; build_histogram is then applied to it.
HistogramInit ==
    /\ users = (1 :> SeedAdmin)
    /\ nextId = 2
    /\ nextTok = 1
    /\ now = 0
    /\ pc = [s \in Sessions |-> "idle"]
    /\ tok = [s \in Sessions |-> 0]
    /\ stmt = [s \in Sessions |-> NoStmt]
    /\ redemptions = [t \in Tokens |-> 0]
    /\ superseded = {}
    /\ \E n \in 0 .. MaxRows :
        \E rows \in [1 .. n -> RowInputs], k \in KeyInputs, t \in TopNInputs :
            call = [op |-> "build_histogram", rows |-> rows, x_key |-> k,
                    top_n |-> t]
    /\ ret = NoRet

call_build_histogram ==
    /\ call.op = "build_histogram"
    /\ ret = NoRet
    /\ ret' = build_histogram(call.rows, call.x_key, call.top_n)
    /\ UNCHANGED <<users, nextId, nextTok, now, pc, tok, stmt,
                   redemptions, superseded, call>>

HistogramNext == call_build_histogram

HistogramSpec == HistogramInit /\ [][HistogramNext]_vars

---------------------------------------------------------------------------
(* ui/pages/analytics.py, analytics_chart.py, analytics_table.py: refresh *)

DEFAULT_LIMIT == 500
TABLE_MAX_LIMIT == 50000
CHART_MAX_FETCH == 250000

Min(a, b) == IF a <= b THEN a ELSE b
Max(a, b) == IF a >= b THEN a ELSE b

\* _read_filters: limit = int(inp_limit.value or DEFAULT_LIMIT), clamped.
\* An empty field and 0 both give the default.
read_limit(value) ==
    LET limit == IF value = 0 THEN DEFAULT_LIMIT ELSE value
    IN  Max(1, Min(limit, TABLE_MAX_LIMIT))

\* result_for(query_id, ..., limit, offset): one query call.  It runs two
\* statements in one READ COMMITTED transaction, the rows with
\* LIMIT/OFFSET and then COUNT(*); n_rows and n_count are the numbers of
\* matching rows each of them sees.  items is the number of rows returned.
result_for(limit, offset, n_rows, n_count) ==
    [items |-> Max(0, Min(limit, n_rows - offset)), total |-> n_count]

\* Faulty variant: the chart fetch is not capped.
chart_fetch_uncapped(total) == Max(total, 0)

\* chart_fetch = min(max(total, 0), CHART_MAX_FETCH).
chart_fetch(total) == Min(Max(total, 0), CHART_MAX_FETCH)

\* Faulty variant: the empty state keeps the rows of the table fetch.
no_results_view_keeps_rows(res) ==
    [shown |-> "empty", table |-> res.items, chart |-> 0,
     images |-> res.items]

\* The empty state: _set_table([], ...), _set_chart(plotly_bar([], [])),
\* _set_images([]).  Each field is the number of rows the widget is built
\* from; a page without the widget has 0.
no_results_view(res) ==
    [shown |-> "empty", table |-> 0, chart |-> 0, images |-> 0]

\* What a refresh that returns at once leaves on the page: nothing is set.
untouched_view == [shown |-> "untouched", table |-> 0, chart |-> 0, images |-> 0]

\* refresh() of the pages with a chart: the query calls it makes (limit,
\* offset of each), the result shown in the table, the result the chart is
\* built from, and what the widgets are set to.  n is the number of
\* matching rows each of the up to four statements sees.
refresh(limit_input, refreshing, n) ==
    LET limit == read_limit(limit_input)
        first == [limit |-> limit, offset |-> 0]
        res_limited == result_for(first.limit, first.offset, n[1], n[2])
        total == res_limited.total
        second == [limit |-> chart_fetch(total), offset |-> 0]
        res_second == result_for(second.limit, second.offset, n[3], n[4])
    IN  IF refreshing
        THEN [calls |-> <<>>, table |-> [items |-> 0, total |-> 0],
              chart |-> [items |-> 0, total |-> 0], chart_from |-> "none",
              view |-> untouched_view]
        ELSE IF total = 0
        THEN [calls |-> <<first>>, table |-> res_limited,
              chart |-> [items |-> 0, total |-> 0], chart_from |-> "none",
              view |-> no_results_view(res_limited)]
        ELSE IF chart_fetch(total) <= res_limited.items
        THEN [calls |-> <<first>>, table |-> res_limited,
              chart |-> res_limited, chart_from |-> "table",
              view |-> [shown |-> "results", table |-> res_limited.items,
                        chart |-> res_limited.items,
                        images |-> res_limited.items]]
        ELSE [calls |-> <<first, second>>, table |-> res_limited,
              chart |-> res_second, chart_from |-> "second",
              view |-> IF res_second.items = 0
                       THEN no_results_view(res_second)
                       ELSE [shown |-> "results",
                             table |-> res_limited.items,
                             chart |-> res_second.items,
                             images |-> res_limited.items]]

\* refresh() of the table page: one query call, no chart.
refresh_table(limit_input, refreshing, n) ==
    LET limit == read_limit(limit_input)
        first == [limit |-> limit, offset |-> 0]
        res == result_for(first.limit, first.offset, n[1], n[2])
    IN  IF refreshing
        THEN [calls |-> <<>>, table |-> [items |-> 0, total |-> 0],
              chart |-> [items |-> 0, total |-> 0], chart_from |-> "none",
              view |-> untouched_view]
        ELSE IF res.total = 0
        THEN [calls |-> <<first>>, table |-> res,
              chart |-> [items |-> 0, total |-> 0], chart_from |-> "none",
              view |-> no_results_view(res)]
        ELSE [calls |-> <<first>>, table |-> res,
              chart |-> [items |-> 0, total |-> 0], chart_from |-> "none",
              view |-> [shown |-> "results", table |-> res.items,
                        chart |-> 0, images |-> res.items]]

\* What the limit field can hold.
LimitInputs == {-1, 0, 1, 2, 3, 60000}

\* The matching rows when refresh starts, and how many more or fewer each
\* later statement sees: the data-entry pages insert rows and edit the
\* filtered fields of stored rows while a refresh runs.
RowCounts == {0, 1, 2, 3, 4, 500, 501, 50001, 250001}
Changed == {-1, 0, 1}

\* The rows each of four successive statements sees.
Seen(n1, d2, d3, d4) ==
    LET n2 == Max(0, n1 + d2)
        n3 == Max(0, n2 + d3)
        n4 == Max(0, n3 + d4)
    IN  <<n1, n2, n3, n4>>

RefreshInit ==
    /\ users = (1 :> SeedAdmin)
    /\ nextId = 2
    /\ nextTok = 1
    /\ now = 0
    /\ pc = [s \in Sessions |-> "idle"]
    /\ tok = [s \in Sessions |-> 0]
    /\ stmt = [s \in Sessions |-> NoStmt]
    /\ redemptions = [t \in Tokens |-> 0]
    /\ superseded = {}
    /\ \E o \in {"refresh", "refresh_table"}, l \in LimitInputs,
          r \in BOOLEAN, n1 \in RowCounts, d2, d3, d4 \in Changed :
            call = [op |-> o, limit_input |-> l, refreshing |-> r,
                    n |-> Seen(n1, d2, d3, d4)]
    /\ ret = NoRet

call_refresh ==
    /\ call.op = "refresh"
    /\ ret = NoRet
    /\ ret' = refresh(call.limit_input, call.refreshing, call.n)
    /\ UNCHANGED <<users, nextId, nextTok, now, pc, tok, stmt,
                   redemptions, superseded, call>>

call_refresh_table ==
    /\ call.op = "refresh_table"
    /\ ret = NoRet
    /\ ret' = refresh_table(call.limit_input, call.refreshing, call.n)
    /\ UNCHANGED <<users, nextId, nextTok, now, pc, tok, stmt,
                   redemptions, superseded, call>>

RefreshNext == call_refresh \/ call_refresh_table

RefreshSpec == RefreshInit /\ [][RefreshNext]_vars

---------------------------------------------------------------------------
(* ui/pages/analytics.py: column visibility and CSV export *)

\* _UI_HIDDEN_COLUMNS, the entries that name columns of the model below.
UI_HIDDEN_COLUMNS == {"l_recordenteredon", "l_level", "f_fragmentid", "f_speed"}

\* (name or "").strip().lower() on the names the queries produce and on two
\* spellings that differ from them only by case and padding.
strip_lower(name) ==
    CASE name = "L_Level" -> "l_level"
      [] name = " l_site " -> "l_site"
      [] OTHER -> name

is_ui_hidden_column(name) == strip_lower(name) \in UI_HIDDEN_COLUMNS

ui_columns(columns) ==
    LET shown(c) == ~is_ui_hidden_column(c) IN SelectSeq(columns, shown)

\* _model_select_list: the prefixed columns of each table, a few of each.
LayerColumns == <<"l_site", "l_level", "l_recordenteredon">>
FragmentColumns == <<"f_fragmentid", "f_piecetype", "f_speed">>
OrnamentColumns == <<"o_primary_">>
FindColumns == <<"fi_findtype">>

\* select_cols of the three query functions; result_for serves every other
\* query_id with query_finds.
QueryIds == {"q1", "q2", "finds"}

select_cols(query_id) ==
    CASE query_id = "q1" -> LayerColumns \o FragmentColumns
      [] query_id = "q2" -> LayerColumns \o FragmentColumns \o OrnamentColumns
      [] OTHER -> FindColumns \o LayerColumns \o FragmentColumns
                    \o OrnamentColumns

Elems(seq) == {seq[i] : i \in DOMAIN seq}

\* seq[:25]
first_25(seq) == SubSeq(seq, 1, Min(25, Len(seq)))

\* analytics_data_csv: fieldnames are the visible columns; each row is
\* written as {k: row.get(k) for k in res.columns}.  csv.DictWriter raises
\* ValueError for a row with a key that is not a fieldname.
analytics_data_csv(query_id, n_items) ==
    LET columns == select_cols(query_id)
        cols == ui_columns(columns)
        row_keys == Elems(columns)
    IN  IF n_items > 0 /\ ~(row_keys \subseteq Elems(cols))
        THEN [error |-> "ValueError", header |-> cols, rows |-> <<>>,
              table_columns |-> <<>>, x_options |-> <<>>, x_key |-> ""]
        ELSE [error |-> "none", header |-> cols,
              rows |-> [i \in 1 .. n_items |-> cols],
              table_columns |-> <<>>, x_options |-> <<>>, x_key |-> ""]

\* The checkboxes a page holds from its previous refresh: none on first
\* load, else one per visible column of the query shown before, all
\* checked or all cleared.
PrevInputs == {"first_load"} \cup QueryIds

checkboxes_before(prev, cleared) ==
    IF prev = "first_load"
    THEN [keys |-> <<>>, checked |-> {}, selected_columns |-> {}]
    ELSE LET keys == ui_columns(select_cols(prev))
         IN  [keys |-> keys,
              checked |-> IF cleared THEN {} ELSE Elems(keys),
              selected_columns |-> Elems(keys)]

\* _rebuild_column_checkboxes.
rebuild_column_checkboxes(boxes, all_columns) ==
    LET current == IF boxes.selected_columns = {}
                   THEN Elems(all_columns)
                   ELSE boxes.selected_columns \cap Elems(all_columns)
    IN  [keys |-> all_columns, checked |-> current,
         selected_columns |-> current]

\* The preferred group-by columns, those the model has.
preferred == <<"l_site", "l_level", "f_piecetype", "o_primary_">>

first_in(seq, allowed) ==
    LET hits == SelectSeq(seq, LAMBDA c : c \in allowed)
    IN  IF hits = <<>> THEN "" ELSE Head(hits)

\* The column part of refresh() in analytics.py, from the chart result on:
\* the table's columns, the group-by options and the chosen x-axis.
refresh_columns(query_id, chart_items, boxes, x_value) ==
    LET columns == select_cols(query_id)
        checked_seq(b) == SelectSeq(b.keys, LAMBDA c : c \in b.checked)
    IN  IF chart_items = 0
        THEN [error |-> "none", header |-> <<>>, rows |-> <<>>,
              table_columns |->
                  IF checked_seq(boxes) # <<>> THEN checked_seq(boxes)
                  ELSE first_25(columns),
              x_options |-> <<>>, x_key |-> ""]
        ELSE LET filtered == ui_columns(columns)
                 ui_cols == IF filtered = <<>> THEN columns ELSE filtered
                 boxes2 == IF boxes.keys = <<>> \/ boxes.keys # ui_cols
                           THEN rebuild_column_checkboxes(boxes, ui_cols)
                           ELSE boxes
                 visible_cols == IF checked_seq(boxes2) # <<>>
                                 THEN checked_seq(boxes2)
                                 ELSE first_25(ui_cols)
                 default_x == IF first_in(preferred, Elems(ui_cols)) # ""
                              THEN first_in(preferred, Elems(ui_cols))
                              ELSE IF ui_cols # <<>> THEN ui_cols[1] ELSE ""
                 x_key == IF x_value = "" \/ x_value \notin Elems(ui_cols)
                          THEN default_x ELSE x_value
             IN  [error |-> "none", header |-> <<>>, rows |-> <<>>,
                  table_columns |-> visible_cols,
                  x_options |-> ui_cols, x_key |-> x_key]

\* What the select box can hold from before: nothing, or a visible column
\* of some query.
XInputs == {"", "l_site", "fi_findtype"}

ColumnInit ==
    /\ users = (1 :> SeedAdmin)
    /\ nextId = 2
    /\ nextTok = 1
    /\ now = 0
    /\ pc = [s \in Sessions |-> "idle"]
    /\ tok = [s \in Sessions |-> 0]
    /\ stmt = [s \in Sessions |-> NoStmt]
    /\ redemptions = [t \in Tokens |-> 0]
    /\ superseded = {}
    /\ \E o \in {"analytics_data_csv", "refresh_columns"},
          qid \in QueryIds \cup {"other"}, k \in {0, 1, 2},
          prev \in PrevInputs, cleared \in BOOLEAN, x \in XInputs :
            call = [op |-> o, query_id |-> qid, n_items |-> k,
                    boxes |-> checkboxes_before(prev, cleared), x_value |-> x]
    /\ ret = NoRet

call_analytics_data_csv ==
    /\ call.op = "analytics_data_csv"
    /\ ret = NoRet
    /\ ret' = analytics_data_csv(call.query_id, call.n_items)
    /\ UNCHANGED <<users, nextId, nextTok, now, pc, tok, stmt,
                   redemptions, superseded, call>>

call_refresh_columns ==
    /\ call.op = "refresh_columns"
    /\ ret = NoRet
    /\ ret' = refresh_columns(call.query_id, call.n_items, call.boxes,
                              call.x_value)
    /\ UNCHANGED <<users, nextId, nextTok, now, pc, tok, stmt,
                   redemptions, superseded, call>>

ColumnNext == call_analytics_data_csv \/ call_refresh_columns

ColumnSpec == ColumnInit /\ [][ColumnNext]_vars

---------------------------------------------------------------------------
(* ui/repository/analytics_repo.py: the query functions *)

\* str.lower() on the letters the stored data and the filters use.
lower_char(c) == IF c = "A" THEN "a" ELSE IF c = "X" THEN "x" ELSE c
lower(s) == [i \in DOMAIN s |-> lower_char(s[i])]

\* hay LIKE '%needle%'
contains(hay, needle) ==
    \E i \in 0 .. (Len(hay) - Len(needle)) :
        SubSeq(hay, i + 1, i + Len(needle)) = needle

\* column ILIKE '%value%': no match on a NULL column.
ilike(column, value) ==
    column # NULL /\ contains(lower(column[1]), lower(value))

\* COALESCE(column, '') ILIKE '%value%'
coalesce_ilike(column, value) ==
    contains(lower(IF column = NULL THEN <<>> ELSE column[1]), lower(value))

\* The stored rows.  recordenteredon is a day number.
LayerIds == {1, 2, 3}

Tbllayer ==
    [i \in LayerIds |->
        CASE i = 1 -> [site |-> Some(<<"a", " ", "b">>), sector |-> Some(<<"A">>),
                       square |-> NULL, recordenteredon |-> 1]
          [] i = 2 -> [site |-> Some(<<"A">>), sector |-> Some(<<" ">>),
                       square |-> Some(<<"x">>), recordenteredon |-> 2]
          [] OTHER -> [site |-> NULL, sector |-> NULL,
                       square |-> Some(<<"x">>), recordenteredon |-> 3]]

\* tblfragments: fragmentid, locationid and the three searched texts.
Tblfragment ==
    { [fragmentid |-> 11, locationid |-> 1, inventory |-> NULL,
       note |-> Some(<<"a">>), piecetype |-> Some(<<"x">>)],
      [fragmentid |-> 12, locationid |-> 1, inventory |-> NULL,
       note |-> NULL, piecetype |-> Some(<<"X", " ">>)],
      [fragmentid |-> 13, locationid |-> 2, inventory |-> Some(<<"a">>),
       note |-> NULL, piecetype |-> Some(<<"x">>)],
      [fragmentid |-> 14, locationid |-> 3, inventory |-> NULL,
       note |-> NULL, piecetype |-> Some(<<"x">>)] }

Tblornament ==
    { [ornamentid |-> 21, fragmentid |-> 11],
      [ornamentid |-> 22, fragmentid |-> 11],
      [ornamentid |-> 23, fragmentid |-> 13] }

Tblfind ==
    { [findid |-> 31, layerid |-> 1, description |-> Some(<<"a">>),
       findtype |-> NULL, inventory |-> NULL],
      [findid |-> 32, layerid |-> 2, description |-> NULL,
       findtype |-> Some(<<"x">>), inventory |-> NULL],
      [findid |-> 33, layerid |-> 3, description |-> NULL,
       findtype |-> NULL, inventory |-> Some(<<" ">>)] }

\* The FROM ... JOIN of each query function over the stored layers; a row
\* carries its ORDER BY key, its layer and the three texts q searches.
joined(query_id, stored) ==
    CASE query_id = "q1" ->
           { [key |-> <<f.locationid, f.fragmentid>>, l |-> f.locationid,
              texts |-> <<f.inventory, f.note, f.piecetype>>] :
                f \in {g \in Tblfragment : g.locationid \in stored} }
      [] query_id = "q2" ->
           { [key |-> <<p[1].locationid, p[1].fragmentid, p[2].ornamentid>>,
              l |-> p[1].locationid,
              texts |-> <<p[1].inventory, p[1].note, p[1].piecetype>>] :
                p \in {r \in Tblfragment \X Tblornament :
                         /\ r[1].locationid \in stored
                         /\ r[1].fragmentid = r[2].fragmentid} }
      [] OTHER ->
           { [key |-> <<fi.findid>>, l |-> fi.layerid,
              texts |-> <<fi.description, fi.findtype, fi.inventory>>] :
                fi \in {g \in Tblfind : g.layerid \in stored} }

\* Python truth of an Optional[str]: None and "" are false.
truthy(v) == v # NULL /\ v # Some(<<>>)

\* _build_where: the clauses, each NULL when the filter adds none.  The q
\* clause exists for the query ids 'q1', 'q2' and 'finds'.
build_where(query_id, site, sector, square, date_from, date_to, q) ==
    [site |-> IF truthy(site) THEN site ELSE NULL,
     sector |-> IF truthy(sector) THEN sector ELSE NULL,
     square |-> IF truthy(square) THEN square ELSE NULL,
     date_from |-> date_from,
     date_to |-> date_to,
     q |-> IF truthy(q) THEN q ELSE NULL,
     q_texts |-> query_id \in {"q1", "q2", "finds"}]

\* A joined row satisfies the WHERE clause.
satisfies(row, where) ==
    LET l == Tbllayer[row.l]
    IN  /\ where.site # NULL => ilike(l.site, where.site[1])
        /\ where.sector # NULL => ilike(l.sector, where.sector[1])
        /\ where.square # NULL => ilike(l.square, where.square[1])
        /\ where.date_from # NULL => l.recordenteredon >= where.date_from[1]
        /\ where.date_to # NULL => l.recordenteredon <= where.date_to[1]
        /\ (where.q # NULL /\ where.q_texts)
              => \E i \in 1 .. 3 : coalesce_ilike(row.texts[i], where.q[1])

\* ORDER BY key DESC, lexicographic.
key_greater(a, b) ==
    \E i \in 1 .. Len(a) :
        /\ a[i] > b[i]
        /\ \A j \in 1 .. (i - 1) : a[j] = b[j]

RECURSIVE order_by_desc(_)
order_by_desc(rows) ==
    IF rows = {} THEN <<>>
    ELSE LET top == CHOOSE r \in rows :
                        \A o \in rows \ {r} : key_greater(r.key, o.key)
         IN  <<top>> \o order_by_desc(rows \ {top})

\* _run_sql: LIMIT :limit OFFSET :offset
run_sql(rows, limit, offset) ==
    SubSeq(order_by_desc(rows), offset + 1,
           Min(Cardinality(rows), offset + limit))

\* Faulty variant: the total is the number of items returned.
count_sql_of_page(rows, items) == Len(items)

\* _count_sql: SELECT COUNT(*) FROM (base WHERE ...) x
count_sql(rows, items) == Cardinality(rows)

\* query_q1_layers_fragments, query_q2_layers_fragments_ornaments and
\* query_finds: shape is the query id the function passes to _build_where.
query(shape, stored, site, sector, square, date_from, date_to, q, limit, offset) ==
    LET where == build_where(shape, site, sector, square, date_from, date_to, q)
        rows == {r \in joined(shape, stored) : satisfies(r, where)}
        items == run_sql(rows, limit, offset)
    IN  [items |-> [i \in DOMAIN items |-> items[i].key],
         total |-> count_sql(rows, items),
         columns |-> select_cols(shape),
         error |-> "none"]

query_finds(stored, site, sector, square, date_from, date_to, q, limit, offset) ==
    query("finds", stored, site, sector, square, date_from, date_to, q, limit, offset)

\* Faulty variant: an unknown query_id is served by the q1 shape.
result_shape_defaults_to_q1(query_id) ==
    IF query_id = "q2" THEN "q2" ELSE IF query_id = "finds" THEN "finds" ELSE "q1"

\* result_for: the query function that serves a query_id.
result_shape(query_id) ==
    IF query_id = "q1" THEN "q1" ELSE IF query_id = "q2" THEN "q2" ELSE "finds"

\* date.fromisoformat: the day number of the three dates the stored rows
\* have, NULL (ValueError) for every other string.

fromisoformat(s) ==
    CASE s = "2024-01-01" -> Some(1)
      [] s = "2024-01-02" -> Some(2)
      [] s = "2024-01-03" -> Some(3)
      [] OTHER -> NULL

\* parse_date
parse_date(s) == IF s = NULL \/ s = Some("") THEN NULL ELSE fromisoformat(s[1])

\* A caller's fetch: parse_date on both bounds, then result_for.
fetch(query_id, stored, site, sector, square, date_from, date_to, q, limit, offset) ==
    query(result_shape(query_id), stored, site, sector, square,
          parse_date(date_from), parse_date(date_to), q, limit, offset)

\* QUERY_OPTIONS.get(sel_query.value, "q1") in _read_filters.
QUERY_OPTIONS ==
    [label \in {"Filter #1", "Filter #2", "Finds"} |->
        CASE label = "Filter #1" -> "q1"
          [] label = "Filter #2" -> "q2"
          [] OTHER -> "finds"]

read_query_id(selection) ==
    IF selection \in DOMAIN QUERY_OPTIONS THEN QUERY_OPTIONS[selection]
    ELSE "q1"

StoredInputs_layers == {{}, {1}, {1, 2}, {1, 2, 3}}
SiteInputs == {NULL, Some(<<>>), Some(<<" ">>), Some(<<"a">>)}
QInputs == {NULL, Some(<<>>), Some(<<" ">>), Some(<<"x">>)}
PageLimits == {1, 2, 500}
Offsets == {0, 1}

QueryInit ==
    /\ users = (1 :> SeedAdmin)
    /\ nextId = 2
    /\ nextTok = 1
    /\ now = 0
    /\ pc = [s \in Sessions |-> "idle"]
    /\ tok = [s \in Sessions |-> 0]
    /\ stmt = [s \in Sessions |-> NoStmt]
    /\ redemptions = [t \in Tokens |-> 0]
    /\ superseded = {}
    /\ \/ \E qid \in QueryIds \cup {"other"}, st \in StoredInputs_layers,
             site \in SiteInputs, sector \in {NULL, Some(<<" ">>)},
             square \in {NULL, Some(<<>>)}, q \in QInputs,
             df \in {NULL, Some("2024-01-02"), Some("2024-13-01")}, dt \in {Some(""), Some("2024-01-02"), Some("02.01.2024")},
             limit \in PageLimits, offset \in Offsets :
               call = [op |-> "result_for", query_id |-> qid, stored |-> st,
                       site |-> site, sector |-> sector, square |-> square,
                       date_from |-> df, date_to |-> dt, q |-> q,
                       limit |-> limit, offset |-> offset]
       \/ \E sel \in {"Filter #1", "Filter #2", "Finds", ""}, st \in StoredInputs_layers,
             q \in QInputs, limit \in PageLimits :
               call = [op |-> "read_filters", selection |-> sel,
                       stored |-> st, site |-> NULL, sector |-> NULL,
                       square |-> NULL, date_from |-> NULL,
                       date_to |-> NULL, q |-> q,
                       limit |-> limit, offset |-> 0]
    /\ ret = NoRet

call_result_for ==
    /\ call.op = "result_for"
    /\ ret = NoRet
    /\ ret' = fetch(call.query_id, call.stored, call.site, call.sector,
                    call.square, call.date_from, call.date_to, call.q,
                    call.limit, call.offset)
    /\ UNCHANGED <<users, nextId, nextTok, now, pc, tok, stmt,
                   redemptions, superseded, call>>

\* A page's fetch: _read_filters maps the selection to a query id and
\* strips the text filters.
call_read_filters ==
    /\ call.op = "read_filters"
    /\ ret = NoRet
    /\ ret' = fetch(read_query_id(call.selection), call.stored, NULL, NULL,
                    NULL, NULL, NULL,
                    IF call.q = NULL \/ strip(call.q[1]) = <<>> THEN NULL
                    ELSE Some(strip(call.q[1])),
                    call.limit, 0)
    /\ UNCHANGED <<users, nextId, nextTok, now, pc, tok, stmt,
                   redemptions, superseded, call>>

QueryNext == call_result_for \/ call_read_filters

QuerySpec == QueryInit /\ [][QueryNext]_vars

---------------------------------------------------------------------------
(* ui/pages/admin.py, auth/deps.py: who runs the admin page's actions *)

\* get_current_user and the checks of require_admin on the session's
\* user_id (0: none stored).
current_user_status(user_id) ==
    IF user_id = 0 \/ user_id \notin DOMAIN users THEN "none"
    ELSE IF ~users[user_id].is_active THEN "inactive"
    ELSE IF users[user_id].role # "admin" THEN "not admin"
    ELSE "admin"

\* require_admin: the exception it raises, "none" when it returns the user.
require_admin(user_id) ==
    IF current_user_status(user_id) = "admin" THEN "none" ELSE "PermissionError"

NoAction == [action |-> "none", actor |-> 0, actor_status |-> "none",
             error |-> "none"]

\* call holds, per browser session, the stored user_id and whether an
\* admin page is open; ret is the last admin action that ran and what the
\* session's user was when it ran.
AdminInit ==
    /\ users = (1 :> SeedAdmin)
    /\ nextId = 2
    /\ nextTok = 1
    /\ now = 0
    /\ pc = [s \in Sessions |-> "idle"]
    /\ tok = [s \in Sessions |-> 0]
    /\ stmt = [s \in Sessions |-> NoStmt]
    /\ redemptions = [t \in Tokens |-> 0]
    /\ superseded = {}
    /\ call = [op |-> "admin", user_id |-> [s \in Sessions |-> 0],
               page |-> [s \in Sessions |-> FALSE]]
    /\ ret = NoAction

\* dev-login: do_login stores the id of any listed user.
do_login(s, user_id) ==
    /\ user_id \in DOMAIN users
    /\ call' = [call EXCEPT !.user_id[s] = user_id]
    /\ UNCHANGED <<users, nextId, nextTok, now, pc, tok, stmt,
                   redemptions, superseded, ret>>

\* page_admin: require_admin(), then the page with its handlers is built.
page_admin(s) ==
    /\ call' = [call EXCEPT !.page[s] = require_admin(call.user_id[s]) = "none"]
    /\ UNCHANGED <<users, nextId, nextTok, now, pc, tok, stmt,
                   redemptions, superseded, ret>>

\* do_create_invite on an open admin page.
admin_do_create_invite(s, email_in, role) ==
    /\ call.page[s]
    /\ nextTok <= MaxInvites
    /\ LET email == strip(email_in)
           st == create_invite_for_email(email, role, new_invite_token, now)
           r == scope_result(st, "none", "none")
       IN  IF email = <<>>
           THEN /\ ret' = [action |-> "invite refused",
                           actor |-> call.user_id[s],
                           actor_status |-> current_user_status(call.user_id[s]),
                           error |-> "none"]
                /\ UNCHANGED <<users, nextId, nextTok>>
           ELSE /\ users' = r.table
                /\ nextId' = r.nextId
                /\ nextTok' = nextTok + 1
                /\ ret' = [action |-> "invite", actor |-> call.user_id[s],
                           actor_status |-> current_user_status(call.user_id[s]),
                           error |-> r.error]
    /\ UNCHANGED <<now, pc, tok, stmt, redemptions, superseded, call>>

\* toggle_user from the dialog of a row of an open admin page.
admin_toggle_user(s, user_id, active) ==
    /\ call.page[s]
    /\ user_id \in DOMAIN users
    /\ LET r == scope_result(set_user_active(user_id, active), "none", "none")
       IN  /\ users' = r.table
           /\ nextId' = r.nextId
           /\ ret' = [action |-> "toggle", actor |-> call.user_id[s],
                      actor_status |-> current_user_status(call.user_id[s]),
                      error |-> r.error]
    /\ UNCHANGED <<nextTok, now, pc, tok, stmt, redemptions, superseded, call>>

AdminNext ==
    \/ \E s \in Sessions, id \in 1 .. nextId : do_login(s, id)
    \/ \E s \in Sessions : page_admin(s)
    \/ \E s \in Sessions, e \in {<<>>, <<"a">>, <<"r">>}, r \in RoleInputs :
            admin_do_create_invite(s, e, r)
    \/ \E s \in Sessions, id \in 1 .. nextId, a \in BOOLEAN :
            admin_toggle_user(s, id, a)

AdminSpec == AdminInit /\ [][AdminNext]_vars

---------------------------------------------------------------------------
(* The analytics pages' refresh(), statement by statement: '_refreshing' *)

\* Faulty variant: the flag is reset at the end of the try block, which an
\* exception skips.
flag_after_body_without_finally(outcome) == outcome = "exception"

\* finally: state["_refreshing"] = False, however the body ended.
flag_after_body(outcome) == FALSE

\* call is the page: its kind, its '_refreshing' flag, where the running
\* refresh body is (at: "idle" when none runs), the limit it read and the
\* rows its statements see.  ret is what happened last, the number of
\* queries of the current or last body, and how the last body ended.
FlagInit ==
    /\ users = (1 :> SeedAdmin)
    /\ nextId = 2
    /\ nextTok = 1
    /\ now = 0
    /\ pc = [s \in Sessions |-> "idle"]
    /\ tok = [s \in Sessions |-> 0]
    /\ stmt = [s \in Sessions |-> NoStmt]
    /\ redemptions = [t \in Tokens |-> 0]
    /\ superseded = {}
    /\ \E k \in {"analytics", "chart", "table"} :
        call = [op |-> "page", kind |-> k, refreshing |-> FALSE,
                at |-> "idle", limit |-> 0, n |-> <<0, 0, 0, 0>>,
                table |-> [items |-> 0, total |-> 0]]
    /\ ret = [event |-> "none", queries |-> 0, outcome |-> "none"]

\* The page with no body running: the body's locals are gone.
at_rest(page, flag) ==
    [page EXCEPT !.at = "idle", !.refreshing = flag, !.limit = 0,
                 !.n = <<0, 0, 0, 0>>, !.table = [items |-> 0, total |-> 0]]

\* The body leaves through finally.
body_ends(outcome) ==
    /\ call' = at_rest(call, flag_after_body(outcome))
    /\ ret' = [ret EXCEPT !.event = "ended", !.outcome = outcome]

\* refresh() is called, by an event or from inside the running body: it
\* returns at once when the flag is set, else it sets the flag and starts
\* its body.  A body started inside another one runs to its end before the
\* outer one continues.
refresh_called ==
    /\ call.op = "page"
    /\ IF call.refreshing
       THEN /\ ret' = [ret EXCEPT !.event = "skipped"]
            /\ UNCHANGED call
       ELSE IF call.at = "idle"
       THEN /\ \E limit_input \in LimitInputs, n1 \in {0, 1, 2},
                  d2, d3, d4 \in Changed :
                    call' = [call EXCEPT !.refreshing = TRUE,
                                         !.at = "read_filters",
                                         !.limit = limit_input,
                                         !.n = Seen(n1, d2, d3, d4)]
            /\ ret' = [event |-> "entered", queries |-> 0,
                       outcome |-> "running"]
       ELSE /\ call' = [call EXCEPT !.refreshing = flag_after_body("return")]
            /\ ret' = [ret EXCEPT !.event = "nested"]
    /\ UNCHANGED <<users, nextId, nextTok, now, pc, tok, stmt,
                   redemptions, superseded>>

\* f = _read_filters()
body_read_filters(raises) ==
    /\ call.op = "page"
    /\ call.at = "read_filters"
    /\ IF raises THEN body_ends("exception")
       ELSE /\ call' = [call EXCEPT !.at = "table_fetch",
                                    !.limit = read_limit(call.limit)]
            /\ ret' = [ret EXCEPT !.event = "read_filters"]
    /\ UNCHANGED <<users, nextId, nextTok, now, pc, tok, stmt,
                   redemptions, superseded>>

\* The first result_for call and the branches on its total.
body_table_fetch(raises) ==
    /\ call.op = "page"
    /\ call.at = "table_fetch"
    /\ LET res == result_for(call.limit, 0, call.n[1], call.n[2])
           queried == [ret EXCEPT !.event = "query", !.queries = @ + 1]
       IN  IF raises THEN body_ends("exception")
           ELSE IF res.total = 0
           THEN /\ call' = at_rest(call, flag_after_body("empty"))
                /\ ret' = [queried EXCEPT !.event = "ended",
                                          !.outcome = "empty"]
           ELSE /\ call' = [call EXCEPT
                              !.table = res,
                              !.at = IF call.kind = "table"
                                        \/ chart_fetch(res.total) <= res.items
                                     THEN "render" ELSE "chart_fetch"]
                /\ ret' = queried
    /\ UNCHANGED <<users, nextId, nextTok, now, pc, tok, stmt,
                   redemptions, superseded>>

\* The second result_for call of the pages with a chart.
body_chart_fetch(raises) ==
    /\ call.op = "page"
    /\ call.at = "chart_fetch"
    /\ LET res == result_for(chart_fetch(call.table.total), 0,
                             call.n[3], call.n[4])
       IN  IF raises THEN body_ends("exception")
           ELSE IF res.items = 0
           THEN /\ call' = at_rest(call, flag_after_body("empty"))
                /\ ret' = [event |-> "ended", queries |-> ret.queries + 1,
                           outcome |-> "empty"]
           ELSE /\ call' = [call EXCEPT !.at = "render"]
                /\ ret' = [ret EXCEPT !.event = "query", !.queries = @ + 1]
    /\ UNCHANGED <<users, nextId, nextTok, now, pc, tok, stmt,
                   redemptions, superseded>>

\* The rest of the body: columns, table, chart, images, status.
body_render(raises) ==
    /\ call.op = "page"
    /\ call.at = "render"
    /\ body_ends(IF raises THEN "exception" ELSE "return")
    /\ UNCHANGED <<users, nextId, nextTok, now, pc, tok, stmt,
                   redemptions, superseded>>

FlagNext ==
    \/ refresh_called
    \/ \E raises \in BOOLEAN : body_read_filters(raises)
    \/ \E raises \in BOOLEAN : body_table_fetch(raises)
    \/ \E raises \in BOOLEAN : body_chart_fetch(raises)
    \/ \E raises \in BOOLEAN : body_render(raises)

FlagSpec == FlagInit /\ [][FlagNext]_vars

---------------------------------------------------------------------------
(* Properties *)

\* Form input that passes do_accept's validation.
ValidUsernames == {strip(u) : u \in UsernameInputs} \ {<<>>}
ValidPasswords == PasswordInputs \ {<<>>}

\* do_accept refuses raw token t with message msg, whatever valid form
\* input is submitted, and so does a fresh load of the page.
RefusedAs(t, msg) ==
    /\ page_refusal(Some(t), now) = msg
    /\ \A u \in ValidUsernames, p \in ValidPasswords :
            accept_refusal(t, u, p, p, now) = msg

\* Session s ends its transaction in this step.
Ends(s, stage) == pc[s] = stage /\ pc'[s] # stage

\* C1: of the redemption attempts made with one raw token, at most one
\* commits an activation.
C1_AtMostOneRedemptionPerToken ==
    \A t \in Tokens : redemptions[t] <= 1

\* C2: once a redemption with raw token t has committed, every redemption
\* attempt submitted afterwards with t is refused as invalid: no session
\* gets from the form past the token check, so it stages and writes nothing.
C2_RedeemedTokenStaysInvalid ==
    /\ [](\A t \in Tokens : redemptions[t] > 0 => RefusedAs(t, "Invalid token"))
    /\ [][\A s \in Sessions :
            (pc[s] = "form" /\ redemptions[tok[s]] > 0)
                => pc'[s] # "acc_flush"]_vars

\* C2 witness: a form that was opened for the token before it was redeemed
\* is still shown after the redemption committed.
C2_Witness ==
    \E s \in Sessions : pc[s] = "form" /\ redemptions[tok[s]] > 0

\* C3: an active user record has no pending invite token.
C3_ActiveImpliesNoPendingInvite ==
    \A id \in DOMAIN users :
        users[id].is_active => users[id].invite_token_hash = NULL

\* C4: in every record the token hash and the expiry are both set or both
\* NULL, and every unit of work that writes one writes the other.
C4_TokenAndExpiryTogether ==
    /\ \A id \in DOMAIN users :
        (users[id].invite_token_hash = NULL)
            <=> (users[id].invite_expires_at = NULL)
    /\ \A s \in Sessions :
        ("invite_token_hash" \in stmt[s].cols)
            <=> ("invite_expires_at" \in stmt[s].cols)

\* C4 witness: a record whose invite was replaced by a second invite and
\* then redeemed (both columns set, overwritten, cleared), with a
\* redemption of another session still staged on it.
C4_Witness ==
    \E id \in DOMAIN users, s \in Sessions, t \in Tokens :
        /\ superseded # {}
        /\ redemptions[t] > 0
        /\ users[id].email = Some(<<"a">>)
        /\ users[id].invite_token_hash = NULL
        /\ users[id].invite_expires_at = NULL
        /\ pc[s] = "acc_flush"

\* C5: once a later invite for the same record has committed, a
\* redemption attempt submitted with the replaced raw token is refused as
\* invalid, also from a form that was validated before the re-invite.
C5_SupersededTokenIsInvalid ==
    /\ [](\A t \in superseded : RefusedAs(t, "Invalid token"))
    /\ [][\A s \in Sessions :
            (pc[s] = "form" /\ tok[s] \in superseded)
                => pc'[s] # "acc_flush"]_vars

\* C5 witness: the re-invite committed while the form for the first token
\* was open.
C5_Witness ==
    \E s \in Sessions : pc[s] = "form" /\ tok[s] \in superseded

\* The raw tokens whose record's expiry is at or before the current instant.
ExpiredTokens ==
    {t \in Tokens :
        \E id \in DOMAIN users :
            /\ users[id].invite_token_hash = Some(hash_token(t))
            /\ users[id].invite_expires_at # NULL
            /\ users[id].invite_expires_at[1] <= now}

UsernameTaken(st) ==
    /\ st.kind = "update"
    /\ "username" \in st.cols
    /\ \E id \in DOMAIN users \ {st.id} : users[id].username = st.vals.username

\* C7: a redemption whose chosen username is held by another record fails
\* as a whole: its transaction ends without changing any record, nothing
\* is counted as an activation and the form stays.
C7_TakenUsernameRollsBack ==
    [][\A s \in Sessions :
        (Ends(s, "acc_flush") /\ UsernameTaken(stmt[s]))
            => /\ users' = users
               /\ pc'[s] = "form"
               /\ stmt'[s] = NoStmt
               /\ redemptions' = redemptions]_vars

\* C7 witness: a redemption is staged with a username the seeded account
\* holds.
C7_Witness ==
    \E s \in Sessions : pc[s] = "acc_flush" /\ UsernameTaken(stmt[s])

\* C8: no two records share an email, and an invite stages an INSERT only
\* for an email no committed record has.
C8_OneRecordPerEmail ==
    /\ [](\A i, j \in DOMAIN users :
            i # j => users[i].email # users[j].email)
    /\ [][\A s \in Sessions :
            (pc[s] \in AtRest /\ pc'[s] = "inv_flush"
                /\ stmt'[s].kind = "insert")
                => SelectWhere("email", stmt'[s].vals.email) = {}]_vars

\* C8 witness: two invites for a new email ran concurrently; the second
\* INSERT was rejected and its id is lost.
C8_Witness ==
    /\ \E id \in DOMAIN users : users[id].email = Some(<<"a">>)
    /\ nextId > Cardinality(DOMAIN users) + 1

\* C9: every create_invite_for_email transaction completes without error
\* and leaves its own token hash and expiry in the record.
C9_EveryInviteCompletes ==
    [][\A s \in Sessions :
        Ends(s, "inv_flush")
            => LET id == IF stmt[s].kind = "insert" THEN nextId
                         ELSE stmt[s].id
               IN  /\ id \in DOMAIN users'
                   /\ users'[id].invite_token_hash = Some(hash_token(tok[s]))
                   /\ users'[id].invite_expires_at
                        = stmt[s].vals.invite_expires_at]_vars

\* C10: a redemption that commits leaves its record with the chosen
\* username and password hash, active, without token and expiry, and
\* changes nothing else.
C10_RedemptionEffect ==
    [][\A s \in Sessions :
        (Ends(s, "acc_flush") /\ pc'[s] = "idle")
            => users' = [users EXCEPT ![stmt[s].id] =
                    [@ EXCEPT !.username = stmt[s].vals.username,
                              !.password_hash = stmt[s].vals.password_hash,
                              !.is_active = TRUE,
                              !.invite_token_hash = NULL,
                              !.invite_expires_at = NULL]]]_vars

\* C11: a create_invite_for_email transaction on an existing record leaves
\* it with the given role, inactive, and with the new token's hash and
\* expiry, and changes nothing else.
C11_ReinviteEffect ==
    [][\A s \in Sessions :
        (Ends(s, "inv_flush") /\ stmt[s].kind = "update")
            => users' = [users EXCEPT ![stmt[s].id] =
                    [@ EXCEPT !.role = stmt[s].vals.role,
                              !.is_active = FALSE,
                              !.invite_token_hash = Some(hash_token(tok[s])),
                              !.invite_expires_at =
                                    stmt[s].vals.invite_expires_at]]]_vars

\* C12: set_user_active on an existing record writes no column but
\* is_active, the record has the flag when the call loads it or the write
\* of the flag is staged, and the transaction changes nothing but that
\* column of that record; an unknown id is refused as not found and no
\* unit of work is ever staged for one.
C12_SetUserActiveFrame ==
    /\ [](/\ \A id \in (1 .. nextId) \ DOMAIN users :
                toggle_refusal(id) = "User not found"
          /\ \A s \in Sessions :
                pc[s] = "tog_flush" => stmt[s].id \in DOMAIN users)
    /\ [][\A s \in Sessions :
            /\ (pc[s] \in AtRest /\ pc'[s] = "tog_flush")
                => /\ stmt'[s].cols \subseteq {"is_active"}
                   /\ \/ "is_active" \in stmt'[s].cols
                      \/ users[stmt'[s].id].is_active = stmt'[s].vals.is_active
            /\ Ends(s, "tog_flush")
                => users' =
                     IF stmt[s].cols = {} THEN users
                     ELSE [users EXCEPT ![stmt[s].id].is_active =
                                            stmt[s].vals.is_active]]_vars

\* C12 witness: a record with a pending invite has been switched on and a
\* second switch of it is staged.
C12_Witness ==
    \E s \in Sessions :
        /\ pc[s] = "tog_flush"
        /\ stmt[s].cols = {"is_active"}
        /\ users[stmt[s].id].invite_token_hash # NULL
        /\ users[stmt[s].id].is_active

\* C13: a call that fails validation reports its error and changes no
\* record: create_invite_for_email with an email that is blank after
\* trimming raises "email is required"; do_accept with a blank username, an
\* empty password or two different passwords notifies and opens no session.
C13_ValidationFailureChangesNothing ==
    [][/\ (call'.op = "create_invite_for_email" /\ strip(call'.email) = <<>>)
            => /\ ret'.error = "email is required"
               /\ users' = users
               /\ nextId' = nextId
       /\ (call'.op = "do_accept" /\ strip(call'.username) = <<>>)
            => /\ ret' = [error |-> "none", notify |-> "Username is required",
                          log |-> <<>>]
               /\ users' = users
       /\ (call'.op = "do_accept" /\ strip(call'.username) # <<>>
                /\ (call'.pw1 = <<>> \/ call'.pw1 # call'.pw2))
            => /\ ret' = [error |-> "none", notify |-> "Passwords do not match",
                          log |-> <<>>]
               /\ users' = users]_vars

\* C13 witness: with a redeemable invite stored, the form was submitted
\* with two different passwords for its token.
C13_Witness ==
    /\ call.op = "do_accept"
    /\ strip(call.username) # <<>>
    /\ call.pw1 # call.pw2
    /\ accept_refusal(call.token, strip(call.username), <<"p">>, <<"p">>, now)
            = "none"

\* C14: a session_scope block ends in one of two ways.  Either nothing
\* raised, and the session was committed and then closed; or the body or
\* the commit raised, and the session was rolled back and then closed, the
\* exception left the block and the table is as it was before.  An early
\* return from the body counts as completion.
C14_SessionScopeOutcome ==
    /\ [](/\ ret.log \in {<<>>, <<"commit", "close">>, <<"rollback", "close">>,
                          <<"commit", "rollback", "close">>}
          /\ (ret.log # <<>>)
                => ((ret.error = "none") <=> (ret.log = <<"commit", "close">>))
          /\ (call.op \in {"create_invite_for_email", "set_user_active"})
                => ret.log # <<>>
          /\ (call.op = "do_accept"
                /\ ret.notify \in {"Invalid token", "Invite expired"})
                => ret.log = <<"commit", "close">>)
    /\ [][ret'.error # "none" => users' = users]_vars

\* C14 witness: an invite was flushed, then the body raised and the block
\* rolled the INSERT or UPDATE back.
C14_Witness ==
    /\ call.op = "create_invite_for_email"
    /\ call.fault = "body"
    /\ ret.error = "OperationalError"
    /\ ret.log = <<"rollback", "close">>

\* C15: every record's role is 'admin' or 'user', never empty, and a
\* create_invite_for_email call with another role fails with an integrity
\* error and leaves the table as it was.
C15_RoleAlwaysAllowed ==
    /\ [](\A id \in DOMAIN users :
            users[id].role \in {"admin", "user"} /\ users[id].role # "")
    /\ [][(call'.op = "create_invite_for_email"
                /\ strip(call'.email) # <<>>
                /\ call'.role \notin {"admin", "user"})
            => (ret'.error = "IntegrityError" /\ users' = users)]_vars

\* C15 witness: an invite with role 'guest' for an email that has a record
\* was rejected.
C15_Witness ==
    /\ call.op = "create_invite_for_email"
    /\ call.role = "guest"
    /\ SelectWhere("email", Some(strip(call.email))) # {}
    /\ ret.error = "IntegrityError"

\* C16: verify_token(raw, stored) is true exactly when stored is present,
\* not empty, and the digest of raw; a token made by new_invite_token
\* verifies against its own digest, against no other raw string's digest,
\* and not against an absent one.
C16_VerifyTokenExact ==
    /\ (call.op = "verify_token")
        => (ret.value <=> /\ call.stored_hash # NULL
                          /\ call.stored_hash # Some(<<>>)
                          /\ call.stored_hash = Some(hash_token(call.raw)))
    /\ (call.op = "new_invite_token")
        => /\ verify_token(ret.raw, Some(ret.hashed))
           /\ \A other \in (0 .. MaxInvites) \ {ret.raw} :
                ~verify_token(ret.raw, Some(hash_token(other)))
           /\ ~verify_token(ret.raw, NULL)

\* C16 witness: a minted token was checked against the digest of another
\* raw string and did not verify.
C16_Witness ==
    /\ call.op = "verify_token"
    /\ call.raw \in 1 .. (nextTok - 1)
    /\ call.stored_hash \notin {NULL, Some(<<>>), Some(hash_token(call.raw))}
    /\ ~ret.value

\* C17: for an expiry that compute_expiry(h) returned at instant t with
\* h >= 1, is_expired is false before t + h and true from t + h on; and
\* is_expired of an absent expiry is true.
C17_ExpiryBoundary ==
    /\ (call.op = "compute_expiry") => ret.value = call.at + call.hours
    /\ (call.op = "is_expired" /\ call.expires_at = NULL) => ret.value
    /\ (call.op = "is_expired" /\ call.expires_at # NULL /\ call.hours >= 1)
        => (ret.value <=> call.at >= call.computed_at + call.hours)

\* C17 witness: is_expired was called exactly at computed_at + hours.
C17_Witness ==
    /\ call.op = "is_expired"
    /\ call.expires_at # NULL
    /\ call.hours >= 1
    /\ call.at = call.computed_at + call.hours
    /\ ret.value

\* Code point of the characters that occur in labels.
ord(c) ==
    CASE c = " " -> 32 [] c = "(" -> 40 [] c = ")" -> 41
      [] c = "0" -> 48 [] c = "1" -> 49
      [] c = "a" -> 97 [] c = "b" -> 98 [] c = "l" -> 108
      [] c = "n" -> 110 [] c = "u" -> 117

\* a < b for strings, as Python compares them.
RECURSIVE str_less(_, _)
str_less(a, b) ==
    IF b = <<>> THEN FALSE
    ELSE IF a = <<>> THEN TRUE
    ELSE IF ord(Head(a)) # ord(Head(b)) THEN ord(Head(a)) < ord(Head(b))
    ELSE str_less(Tail(a), Tail(b))

\* The rows of the call in the order given by the permutation p.
Reordered(rows, p) == [i \in 1 .. Len(rows) |-> rows[p[i]]]

\* C18: build_histogram returns the top_n labels by count, counts
\* non-increasing, labels with equal counts in the order of the labels
\* themselves, and the same result for every order of the same rows.
C18_HistogramOrderIndependent ==
    (call.op = "build_histogram" /\ ret # NoRet)
        => /\ \A i \in 1 .. (Len(ret.ys) - 1) :
                /\ ret.ys[i] >= ret.ys[i + 1]
                /\ (ret.ys[i] = ret.ys[i + 1])
                        => str_less(ret.xs[i], ret.xs[i + 1])
           /\ \A p \in Permutations(1 .. Len(call.rows)) :
                build_histogram(Reordered(call.rows, p), call.x_key,
                                call.top_n) = ret

\* The label the rows' value under the key is to be counted under.
BucketOf(r, key) ==
    LET v == IF \E item \in r : item[1] = key
             THEN (CHOOSE item \in r : item[1] = key)[2]
             ELSE PyNone
    IN  IF v = PyNone THEN NullLabel
        ELSE IF v[1] = "int" THEN str_int(v[2])
        ELSE IF \A k \in 1 .. Len(v[2]) : v[2][k] = " " THEN NullLabel
        ELSE strip(v[2])

\* The rows [a, a, None] of the example.
ExampleRows ==
    <<{<<"x", PyStr(<<"a">>)>>}, {<<"x", PyStr(<<"a">>)>>}, {<<"x", PyNone>>}>>

\* C19: rows whose value is missing, None, empty or blank are counted
\* together under "(null)", a string under its trimmed form; no label is
\* empty or repeated, each count is the number of rows of its bucket, and
\* with top_n not below the number of rows every bucket is returned.  For
\* [a, a, None] the result is ["a", "(null)"], [2, 1].
C19_NullBucket ==
    (call.op = "build_histogram" /\ ret # NoRet
            /\ call.rows # <<>> /\ call.x_key # "")
        => LET n == Len(call.rows)
               m == Len(ret.xs)
           IN  /\ Len(ret.ys) = m
               /\ \A j \in 1 .. m :
                    /\ ret.xs[j] # <<>>
                    /\ ret.ys[j] = Cardinality({i \in 1 .. n :
                            BucketOf(call.rows[i], call.x_key) = ret.xs[j]})
                    /\ \A k \in 1 .. m : ret.xs[k] = ret.xs[j] => k = j
               /\ (call.top_n >= n)
                    => \A i \in 1 .. n : \E j \in 1 .. m :
                            ret.xs[j] = BucketOf(call.rows[i], call.x_key)
               /\ (call.rows = ExampleRows /\ call.top_n >= 2)
                    => ret = [xs |-> <<<<"a">>, NullLabel>>, ys |-> <<2, 1>>]

\* C19 witness: the histogram of the example rows has been built.
C19_Witness ==
    /\ call.op = "build_histogram"
    /\ call.rows = ExampleRows
    /\ call.x_key = "x"
    /\ call.top_n = 30
    /\ ret # NoRet
    /\ ret.xs = <<<<"a">>, NullLabel>>

C21_ZeroTotalGivesEmptyState ==
    (call.op \in {"refresh", "refresh_table"} /\ ret # NoRet
        /\ ~call.refreshing /\ ret.table.total = 0)
        => /\ Len(ret.calls) = 1
           /\ ret.view = [shown |-> "empty", table |-> 0, chart |-> 0,
                          images |-> 0]

\* C21 witness: a page with a chart got total = 0 from a table fetch that
\* returned a row, and is in the empty state after one query.
C21_Witness ==
    /\ call.op = "refresh"
    /\ ret # NoRet
    /\ ~call.refreshing
    /\ ret.table.total = 0
    /\ ret.table.items > 0
    /\ Len(ret.calls) = 1
    /\ ret.view.shown = "empty"

\* C22: no deny-listed column is among the table columns, the group-by
\* options, the chosen x-axis, or the CSV header and rows, and the CSV
\* export of a result that contains deny-listed columns ends without
\* error.
C22_HiddenColumnsNowhere ==
    (call.op \in {"analytics_data_csv", "refresh_columns"} /\ ret # NoRet)
        => /\ \A c \in Elems(ret.table_columns) \cup Elems(ret.x_options)
                       \cup Elems(ret.header) \cup {ret.x_key} :
                    ~is_ui_hidden_column(c)
           /\ \A i \in DOMAIN ret.rows :
                \A c \in Elems(ret.rows[i]) : ~is_ui_hidden_column(c)
           /\ ret.error = "none"

\* A text filter value that is absent, empty or blank.
NoValue(v) == v = NULL \/ strip(v[1]) = <<>>

\* C23: a text filter that is absent, empty or blank, and a date bound
\* that does not parse, adds no predicate: the result equals the result
\* of the same call with that argument omitted, and the call raises
\* nothing.
C23_BlankFilterIsNoFilter ==
    (call.op = "result_for" /\ ret # NoRet)
        => LET c == call
               same(site, sector, square, df, dt, q) ==
                   ret = fetch(c.query_id, c.stored, site, sector, square,
                               df, dt, q, c.limit, c.offset)
           IN  /\ ret.error = "none"
               /\ NoValue(c.site)
                    => same(NULL, c.sector, c.square, c.date_from, c.date_to, c.q)
               /\ NoValue(c.sector)
                    => same(c.site, NULL, c.square, c.date_from, c.date_to, c.q)
               /\ NoValue(c.square)
                    => same(c.site, c.sector, NULL, c.date_from, c.date_to, c.q)
               /\ NoValue(c.q)
                    => same(c.site, c.sector, c.square, c.date_from, c.date_to, NULL)
               /\ parse_date(c.date_from) = NULL
                    => same(c.site, c.sector, c.square, NULL, c.date_to, c.q)
               /\ parse_date(c.date_to) = NULL
                    => same(c.site, c.sector, c.square, c.date_from, NULL, c.q)

\* C24: the total of a query call is the number of rows of the filtered
\* join, whatever the limit and offset, and the same call with any other
\* limit and offset reports the same total.
C24_TotalIsFilteredCount ==
    (call.op = "result_for" /\ ret # NoRet)
        => LET c == call
               shape == result_shape(c.query_id)
               where == build_where(shape, c.site, c.sector, c.square,
                                    parse_date(c.date_from),
                                    parse_date(c.date_to), c.q)
               matching == {r \in joined(shape, c.stored) : satisfies(r, where)}
           IN  /\ ret.total = Cardinality(matching)
               /\ \A limit \in PageLimits, offset \in Offsets :
                    fetch(c.query_id, c.stored, c.site, c.sector, c.square,
                          c.date_from, c.date_to, c.q, limit, offset).total
                        = ret.total

\* C24 witness: a call returned a page shorter than its total.
C24_Witness ==
    /\ call.op = "result_for"
    /\ ret # NoRet
    /\ Len(ret.items) > 0
    /\ ret.total > Len(ret.items)

\* The text filter as _read_filters passes it on.
Stripped(v) == IF v = NULL \/ strip(v[1]) = <<>> THEN NULL ELSE Some(strip(v[1]))

\* C25 as stated: a query_id other than 'q1', 'q2', 'finds' is served by
\* query_finds without error, and a page selection that names no query is
\* served by query_finds too.
C25_UnknownAlwaysFinds ==
    /\ (call.op = "result_for" /\ ret # NoRet /\ call.query_id \notin QueryIds)
          => ret = query_finds(call.stored, call.site, call.sector,
                               call.square, parse_date(call.date_from),
                               parse_date(call.date_to), call.q,
                               call.limit, call.offset)
    /\ (call.op = "read_filters" /\ ret # NoRet
            /\ call.selection \notin DOMAIN QUERY_OPTIONS)
          => ret = query_finds(call.stored, NULL, NULL, NULL, NULL, NULL,
                               Stripped(call.q), call.limit, 0)

\* C25 amended: result_for serves a query_id other than 'q1', 'q2',
\* 'finds' by query_finds without error; a page selection that names no
\* query is mapped to 'q1' before result_for is called and is served by
\* the q1 query.
C25_UnknownIdFindsUnknownSelectionQ1 ==
    /\ (call.op = "result_for" /\ ret # NoRet /\ call.query_id \notin QueryIds)
          => /\ ret = query_finds(call.stored, call.site, call.sector,
                                  call.square, parse_date(call.date_from),
                                  parse_date(call.date_to), call.q,
                                  call.limit, call.offset)
             /\ ret.error = "none"
    /\ (call.op = "read_filters" /\ ret # NoRet
            /\ call.selection \notin DOMAIN QUERY_OPTIONS)
          => ret = query("q1", call.stored, NULL, NULL, NULL, NULL, NULL,
                         Stripped(call.q), call.limit, 0)

\* C25 witness: result_for was called with an unknown query_id and
\* returned rows of the finds query.
C25_Witness ==
    /\ call.op = "result_for"
    /\ call.query_id \notin QueryIds
    /\ ret # NoRet
    /\ ret.total > 0
    /\ ret.columns = select_cols("finds")

\* C26: every active user record has a username and a password hash.
C26_ActiveHasCredentials ==
    \A id \in DOMAIN users :
        users[id].is_active
            => /\ users[id].username # NULL
               /\ users[id].password_hash # NULL

\* C27: an invite creation or a toggle from the admin page runs only when
\* the session's user is, at that time, an existing active admin.
C27_AdminActionsByActiveAdmin ==
    (call.op = "admin" /\ ret.action \in {"invite", "toggle"})
        => ret.actor_status = "admin"

\* C28: no two user records hold the same non-NULL invite_token_hash, so
\* the lookup of redemption by the hash of any minted token matches at
\* most one record.
C28_TokenHashUnique ==
    (call.op = "admin")
        => /\ \A i, j \in DOMAIN users :
                (i # j /\ users[i].invite_token_hash # NULL)
                    => users[i].invite_token_hash # users[j].invite_token_hash
           /\ \A t \in 1 .. (nextTok - 1) :
                Cardinality(SelectWhere("invite_token_hash",
                                        Some(hash_token(t)))) <= 1

\* C28 witness: two records hold pending token hashes at once, and each
\* hash finds its own record.
C28_Witness ==
    /\ call.op = "admin"
    /\ \E i, j \in DOMAIN users :
        /\ i # j
        /\ users[i].invite_token_hash # NULL
        /\ users[j].invite_token_hash # NULL
        /\ SelectWhere("invite_token_hash", users[i].invite_token_hash) = {i}
        /\ SelectWhere("invite_token_hash", users[j].invite_token_hash) = {j}

\* C29: on every analytics page '_refreshing' is true exactly while a
\* refresh body is executing; a refresh called while it is set makes no
\* query and leaves it set; and however the body ends (return, empty
\* result, exception) the flag is false afterwards, so a call is skipped
\* only while a body runs.
C29_FlagTrueExactlyDuringBody ==
    /\ [](call.op = "page" => (call.refreshing <=> call.at # "idle"))
    /\ [][(call.op = "page" /\ ret'.event = "skipped" /\ ret' # ret)
            => /\ call.refreshing /\ call'.refreshing
               /\ call.at # "idle"
               /\ ret'.queries = ret.queries]_vars
    /\ [][(call.op = "page" /\ call.at # "idle" /\ call'.at = "idle")
            => /\ ~call'.refreshing
               /\ ret'.outcome \in {"return", "empty", "exception"}]_vars

\* C29 witness: a body ended by an exception after a query, and the flag
\* is false.
C29_Witness ==
    /\ call.op = "page"
    /\ call.at = "idle"
    /\ ret.outcome = "exception"
    /\ ret.queries > 0
    /\ ~call.refreshing

\* C30: the items and the total of one query call describe the same rows,
\* also while other transactions change the matching rows:
\* len(items) = min(limit, max(0, total - offset)); so the table result is
\* reused for the chart only when it holds `total` rows, and total = 0
\* never comes with items.
C30_ItemsAndTotalAgree ==
    (call.op \in {"refresh", "refresh_table"} /\ ret # NoRet
        /\ ~call.refreshing)
        => LET first == ret.calls[1]
               res == ret.table
           IN  /\ res.items
                    = Min(first.limit, Max(0, res.total - first.offset))
               /\ (ret.chart_from = "table") => res.total <= res.items
               /\ ~(res.total = 0 /\ res.items > 0)

===========================================================================
